---- MODULE Spec2Model ----
(***************************************************************************)
(* Model of mirror_github_releases.py: the release mirroring engine.       *)
(*                                                                         *)
(* One run of main() is a sequential process whose position is pc.  The    *)
(* ledger files, the staging files and the target repository survive a     *)
(* process kill; everything else is lost with the process.  Every external *)
(* call (hosting API, HTTP download, file operation of the ledger save)    *)
(* either succeeds or fails; the number of injected failures and kills is  *)
(* bounded.                                                                *)
(***************************************************************************)
EXTENDS Integers, Sequences, FiniteSets, TLC

(* ---- bounds of the model ---- *)
NumReleases == 2      \* source releases
MaxAssets == 1        \* binary assets attached to each source release
MaxRuns == 2          \* runs of main() in one behaviour
MaxFaults == 3        \* failing external calls in one behaviour
MaxCrashes == 1       \* process kills in one behaviour
MaxSrcUpdates == 1    \* replacements of a source asset between runs
MaxSize == 2          \* largest byte size of a source asset

(* ---- program constants ---- *)
RETRY_COUNT == 3
ArchiveSize == 1      \* byte size of a complete source archive

(* ---- values ---- *)
Releases == 1..NumReleases
AllNames == <<"a", "b", "c", "d">>
AssetName(i) == AllNames[i]
source_files == <<"zip", "tgz">>

NoneRelease == 0
NoneTime == [some |-> FALSE, wall |-> 0, off |-> 0]
UTC(t) == [some |-> TRUE, wall |-> t, off |-> 0]

EmptyMap == [x \in {} |-> x]
HasKey(m, k) == k \in DOMAIN m
Put(m, k, v) == [x \in (DOMAIN m) \cup {k} |-> IF x = k THEN v ELSE m[x]]
SetDefault(m, k, d) == IF HasKey(m, k) THEN m ELSE Put(m, k, d)
Remove(m, k) == [x \in (DOMAIN m) \ {k} |-> m[x]]

EmptyLedger == [releases |-> EmptyMap, assets |-> EmptyMap, source_codes |-> EmptyMap]

(* a file of the ledger store: absent, invalid content, or a whole document *)
AbsentFile == [st |-> "absent", data |-> EmptyLedger]
PartialFile == [st |-> "partial", data |-> EmptyLedger]
ValidFile(d) == [st |-> "valid", data |-> d]

VARIABLES
    pc,             \* position of the process; "idle" between runs
    runs,           \* runs started so far
    now,            \* wall clock
    faults,         \* failures injected so far
    crashes,        \* process kills so far
    srcUpdates,     \* source asset replacements so far
    srcAssets,      \* source repository: release -> sequence of assets
    tgtTags,        \* target repository: tag refs
    tgtReleases,    \* target repository: tags that have a release
    tgtAssets,      \* target repository: tag -> (asset name -> [size, updated_at])
    fPrimary,       \* SYNCED_DATA_FILE
    fBackup,        \* SYNCED_DATA_BACKUP
    fTemp,          \* SYNCED_DATA_FILE.tmp
    staged,         \* staging files temp_*: path -> bytes
    synced_data,    \* the in-memory ledger
    source_releases,\* main: sorted list of source releases
    relIdx,         \* main: index of the release being processed
    target_release, \* main: handle of the target release (its tag) or NoneRelease
    existing,       \* listing of the target's assets taken by the sync function
    src_listing,    \* sync_release_assets: source_assets
    itemIdx,        \* index of the archive or asset being processed
    phase,          \* "code" in sync_source_code, "asset" in sync_release_assets
    has_changes,    \* has_changes of the running sync function
    code_changes,   \* main: result of sync_source_code
    attempt,        \* retry_upload: loop variable
    ret,            \* where save_synced_data returns to
    savePrev,       \* the primary file as it was when the running save began
    durable,        \* ledger entries written by a save that completed
    log,            \* external calls and outcomes of the current run
    det             \* change detector on its own: its inputs and its verdict

vars == <<pc, runs, now, faults, crashes, srcUpdates, srcAssets, tgtTags, tgtReleases,
          tgtAssets, fPrimary, fBackup, fTemp, staged, synced_data, source_releases,
          relIdx, target_release, existing, src_listing, itemIdx, phase, has_changes,
          code_changes, attempt, ret, savePrev, durable, log, det>>

persistent == <<srcAssets, tgtTags, tgtReleases, tgtAssets, fPrimary, fBackup, fTemp, staged>>
budget == <<runs, now, faults, crashes, srcUpdates>>
locals == <<source_releases, relIdx, target_release, existing, src_listing, itemIdx,
            phase, has_changes, code_changes, attempt, ret>>


(* ---- 1. ledger store: load_synced_data ---- *)
\* _load(path): json.load raises on invalid content
CanLoad(file) == file.st = "valid"

load_synced_data(primary, backup) ==
    IF primary.st = "absent"
    THEN EmptyLedger                       \* os.path.exists is False: falls to the last return
    ELSE IF CanLoad(primary)
    THEN primary.data
    ELSE IF backup.st # "absent" /\ CanLoad(backup)
    THEN backup.data
    ELSE EmptyLedger

(* ---- 2. timestamps and asset info ---- *)
\* datetime.astimezone(timezone.utc)
astimezone_utc(t) == [some |-> TRUE, wall |-> t.wall - t.off, off |-> 0]
\* datetime.isoformat(): the text carries the wall time and the offset
NoneIso == [some |-> FALSE, text |-> <<0, 0>>]
isoformat(t) == [some |-> TRUE, text |-> <<t.wall, t.off>>]
\* datetime.fromisoformat(text).timestamp(): seconds since the epoch
fromisoformat_timestamp(iso) == iso.text[1] - iso.text[2]

NoneAsset == [present |-> FALSE, size |-> 0, updated_at |-> NoneTime]
SomeAsset(size, t) == [present |-> TRUE, size |-> size, updated_at |-> t]

UpdatedAtInfo(t) == IF t.some THEN isoformat(astimezone_utc(t)) ELSE NoneIso

\* get_asset_info(asset), for an asset that is not None
get_asset_info(asset) == [size |-> asset.size, updated_at |-> UpdatedAtInfo(asset.updated_at)]

\* dict.get(name): the asset of that name in a listing, or None
GetAsset(listing, name) == IF HasKey(listing, name) THEN listing[name] ELSE NoneAsset

\* a key made of the name alone
asset_key_NameOnly(name, size) == <<name, 0>>

asset_key(name, size) == <<name, size>>

(* ---- 4. change detector of sync_release_assets ---- *)
\* a detector that also syncs when the two instants are equal
need_sync_NotStrict(entries, asset, target_asset) ==
    \/ ~HasKey(entries, asset_key(asset.name, asset.size))
    \/ ~target_asset.present
    \/ asset.size # target_asset.size
    \/ /\ asset.updated_at.some /\ target_asset.updated_at.some
       /\ asset.updated_at.wall - asset.updated_at.off
             >= target_asset.updated_at.wall - target_asset.updated_at.off

\* a detector that syncs when a timestamp is missing
need_sync_MissingSyncs(entries, asset, target_asset) ==
    \/ ~HasKey(entries, asset_key(asset.name, asset.size))
    \/ ~target_asset.present
    \/ asset.size # target_asset.size
    \/ ~asset.updated_at.some
    \/ ~target_asset.updated_at.some
    \/ asset.updated_at.wall - asset.updated_at.off
          > target_asset.updated_at.wall - target_asset.updated_at.off

\* entries: synced_data['assets'][source_id]; asset: the source asset;
\* target_asset: target_assets.get(asset_name)
need_sync(entries, asset, target_asset) ==
    LET source_info == [size |-> asset.size, updated_at |-> UpdatedAtInfo(asset.updated_at)]
        target_info == get_asset_info(target_asset)
    IN  IF ~HasKey(entries, asset_key(asset.name, asset.size))
        THEN TRUE
        ELSE IF ~target_asset.present
        THEN TRUE
        ELSE IF source_info.size # target_info.size
        THEN TRUE
        ELSE IF source_info.updated_at.some /\ target_info.updated_at.some
        THEN fromisoformat_timestamp(source_info.updated_at)
                 > fromisoformat_timestamp(target_info.updated_at)
        ELSE FALSE

(* ---- 5. main: ordering of the source releases ---- *)
created_at(r) == NumReleases - r
\* source_repo.get_releases(): the platform lists the newest release first
SourceListing == [i \in 1..NumReleases |-> i]

RECURSIVE InsertByCreated(_, _)
InsertByCreated(sorted, r) ==
    IF sorted = <<>> THEN <<r>>
    ELSE IF created_at(r) < created_at(Head(sorted))
    THEN <<r>> \o sorted
    ELSE <<Head(sorted)>> \o InsertByCreated(Tail(sorted), r)

\* the releases in the order the platform lists them
SortByCreated_ListingOrder(list) == list

RECURSIVE SortByCreated(_)
SortByCreated(list) ==
    IF list = <<>> THEN <<>>
    ELSE InsertByCreated(SortByCreated(SubSeq(list, 1, Len(list) - 1)), list[Len(list)])

(* ---- ledger contents as a set of entries ---- *)
Entries(d) ==
    {<<"rel", r, "", 0>> : r \in DOMAIN d.releases}
    \cup UNION {{<<"code", t, f, 0>> : f \in DOMAIN d.source_codes[t]} : t \in DOMAIN d.source_codes}
    \cup UNION {{<<"asset", r, k[1], k[2]>> : k \in DOMAIN d.assets[r]} : r \in DOMAIN d.assets}

(* ---- record of the current run ---- *)
EmptyLog == [status |-> "none", prev |-> "none", fresh |-> TRUE, listed |-> FALSE,
             visited |-> <<>>, evaluated |-> {}, dl |-> {}, ul |-> {}, failed |-> {},
             skipped |-> {}, push |-> {}, calls |-> 0, result |-> "none",
             had |-> {},
             final |-> EmptyLedger, prevFinal |-> EmptyLedger]

\* what the next run knows of the run before it
PrevOf(l) ==
    IF ~l.fresh THEN "changed"
    ELSE IF l.status = "complete" /\ l.failed = {} /\ l.skipped = {} THEN "clean"
    ELSE l.status

(* ---- the state after construction ---- *)
InitAsset(r, i) == [name |-> AssetName(i), size |-> 1, updated_at |-> UTC(0), id |-> 10 * r + i]

NoDet == [entry |-> {}, asset |-> [name |-> "a", size |-> 1, updated_at |-> NoneTime, id |-> 0],
          target |-> NoneAsset, out |-> "unset"]

LocalsInit ==
    /\ source_releases = <<>>
    /\ relIdx = 0
    /\ target_release = NoneRelease
    /\ existing = EmptyMap
    /\ src_listing = <<>>
    /\ itemIdx = 0
    /\ phase = "none"
    /\ has_changes = FALSE
    /\ code_changes = FALSE
    /\ attempt = 0
    /\ ret = "none"
    /\ savePrev = AbsentFile
    /\ synced_data = EmptyLedger

\* the process is gone: nothing of its memory remains
LocalsReset ==
    /\ source_releases' = <<>>
    /\ relIdx' = 0
    /\ target_release' = NoneRelease
    /\ existing' = EmptyMap
    /\ src_listing' = <<>>
    /\ itemIdx' = 0
    /\ phase' = "none"
    /\ has_changes' = FALSE
    /\ code_changes' = FALSE
    /\ attempt' = 0
    /\ ret' = "none"
    /\ savePrev' = AbsentFile
    /\ synced_data' = EmptyLedger

InitWorld ==
    /\ pc = "idle"
    /\ runs = 0
    /\ now = 0
    /\ faults = 0
    /\ crashes = 0
    /\ srcUpdates = 0
    /\ srcAssets = [r \in Releases |-> [i \in 1..MaxAssets |-> InitAsset(r, i)]]
    /\ tgtTags = {}
    /\ tgtReleases = {}
    /\ tgtAssets = [r \in Releases |-> EmptyMap]
    /\ fPrimary = AbsentFile
    /\ fBackup = AbsentFile
    /\ fTemp = AbsentFile
    /\ staged = EmptyMap
    /\ durable = {}
    /\ log = EmptyLog
    /\ LocalsInit

Init == InitWorld /\ det = NoDet

(* ---- names of the running step ---- *)
Rel == source_releases[relIdx]          \* release.tag_name and str(release.id)
CanFail == faults < MaxFaults
Fault == faults' = faults + 1
NoFault == faults' = faults

ItemName == IF phase = "code" THEN source_files[itemIdx] ELSE src_listing[itemIdx].name
Art == <<phase, Rel, ItemName>>
\* temp_{filename} and temp_{asset.id}_{asset_name}
temp_path == IF phase = "code" THEN <<"code", Rel, source_files[itemIdx]>>
             ELSE <<"asset", src_listing[itemIdx].id, src_listing[itemIdx].name>>
\* bytes of the complete artifact at its download locator
FullSize == IF phase = "code" THEN ArchiveSize
            ELSE LET m == {j \in 1..Len(srcAssets[Rel]) : srcAssets[Rel][j].id = src_listing[itemIdx].id}
                 IN  IF m = {} THEN 0 ELSE srcAssets[Rel][CHOOSE j \in m : TRUE].size

\* the top-level except and what follows it
Abort ==
    /\ pc' = "main_finally"
    /\ log' = [log EXCEPT !.status = "aborted"]

\* the for loop of main moves to the next release, or ends
Advance(l) ==
    IF relIdx < Len(source_releases)
    THEN /\ relIdx' = relIdx + 1
         /\ pc' = "goc_list"
         /\ log' = l
    ELSE /\ relIdx' = relIdx
         /\ pc' = "main_finally"
         /\ log' = [l EXCEPT !.status = "complete"]

\* save_synced_data(synced_data) is called; it returns to pc = r
CallSave(r) ==
    /\ pc' = "sv_write"
    /\ ret' = r
    /\ savePrev' = fPrimary

(* ---- main(), lines 353-362 ---- *)
StartRun ==
    /\ pc = "idle"
    /\ runs < MaxRuns
    /\ runs' = runs + 1
    /\ now' = now + 1
    /\ synced_data' = load_synced_data(fPrimary, fBackup)
    /\ pc' = "main_list"
    /\ log' = [EmptyLog EXCEPT !.status = "running", !.prev = PrevOf(log),
                               !.had = durable,
                               !.prevFinal = log.final]
    /\ UNCHANGED <<faults, crashes, srcUpdates, persistent, locals, savePrev, durable, det>>

MainList ==
    /\ pc = "main_list"
    /\ \/ /\ NoFault
          /\ source_releases' = SortByCreated(SourceListing)
          /\ relIdx' = 1
          /\ pc' = "goc_list"
          /\ log' = [log EXCEPT !.listed = TRUE]
       \/ /\ CanFail /\ Fault
          /\ Abort
          /\ UNCHANGED <<source_releases, relIdx>>
    /\ UNCHANGED <<runs, now, crashes, srcUpdates, persistent, synced_data, target_release,
                   existing, src_listing, itemIdx, phase, has_changes, code_changes,
                   attempt, ret, savePrev, durable, det>>

(* ---- get_or_create_release, lines 276-307; main, lines 364-375 ---- *)
GocList ==
    /\ pc = "goc_list"
    /\ \/ /\ NoFault
          /\ log' = [log EXCEPT !.visited = Append(@, Rel)]
          /\ IF Rel \in tgtReleases
             THEN target_release' = Rel /\ pc' = "sc_list"
             ELSE target_release' = NoneRelease /\ pc' = "goc_tag"
       \/ /\ CanFail /\ Fault
          \* target_repo.get_releases() raises outside any try of the function
          /\ pc' = "main_finally"
          /\ log' = [log EXCEPT !.visited = Append(@, Rel), !.status = "aborted"]
          /\ UNCHANGED target_release
    /\ UNCHANGED <<runs, now, crashes, srcUpdates, persistent, synced_data, source_releases,
                   relIdx, existing, src_listing, itemIdx, phase, has_changes, code_changes,
                   attempt, ret, savePrev, durable, det>>

GocTag ==
    /\ pc = "goc_tag"
    /\ \/ /\ Rel \in tgtTags                     \* get_git_ref finds the tag
          /\ NoFault
          /\ pc' = "goc_create"
          /\ UNCHANGED tgtTags
       \/ /\ Rel \notin tgtTags                  \* GithubException: create_git_ref
          /\ NoFault
          /\ tgtTags' = tgtTags \cup {Rel}
          /\ pc' = "goc_create"
       \/ /\ CanFail /\ Fault                    \* the tag cannot be read or created
          /\ pc' = "goc_relist"
          /\ UNCHANGED tgtTags
    /\ UNCHANGED <<runs, now, crashes, srcUpdates, srcAssets, tgtReleases, tgtAssets, fPrimary,
                   fBackup, fTemp, staged, synced_data, locals, savePrev, durable, log, det>>

GocCreate ==
    /\ pc = "goc_create"
    /\ \/ /\ NoFault
          /\ tgtReleases' = tgtReleases \cup {Rel}
          /\ target_release' = Rel
          /\ pc' = "sc_list"
       \/ /\ CanFail /\ Fault
          \* create_git_release raises; the platform may have created the release all the same
          /\ \/ tgtReleases' = tgtReleases
             \/ tgtReleases' = tgtReleases \cup {Rel}
          /\ pc' = "goc_relist"
          /\ UNCHANGED target_release
    /\ UNCHANGED <<runs, now, crashes, srcUpdates, srcAssets, tgtTags, tgtAssets, fPrimary,
                   fBackup, fTemp, staged, synced_data, source_releases, relIdx, existing,
                   src_listing, itemIdx, phase, has_changes, code_changes, attempt, ret,
                   savePrev, durable, log, det>>

GocRelist ==
    /\ pc = "goc_relist"
    /\ \/ /\ NoFault
          /\ Rel \in tgtReleases
          /\ target_release' = Rel
          /\ pc' = "sc_list"
          /\ UNCHANGED <<relIdx, log>>
       \/ /\ NoFault
          /\ Rel \notin tgtReleases
          \* returns None: main prints and continues with the next release
          /\ target_release' = NoneRelease
          /\ Advance([log EXCEPT !.skipped = @ \cup {Rel}])
       \/ /\ CanFail /\ Fault
          \* get_releases() raises inside the except block: nothing catches it before main
          /\ Abort
          /\ UNCHANGED <<relIdx, target_release>>
    /\ UNCHANGED <<runs, now, crashes, srcUpdates, persistent, synced_data, source_releases,
                   existing, src_listing, itemIdx, phase, has_changes, code_changes, attempt,
                   ret, savePrev, durable, det>>

(* ---- sync_source_code, lines 110-163 ---- *)
ScList ==
    /\ pc = "sc_list"
    /\ \/ /\ NoFault
          /\ existing' = tgtAssets[target_release]
          /\ synced_data' = [synced_data EXCEPT
                               !.source_codes = SetDefault(@, Rel, EmptyMap)]
          /\ has_changes' = FALSE
          /\ itemIdx' = 1
          /\ phase' = "code"
          /\ pc' = "sc_file"
          /\ UNCHANGED log
       \/ /\ CanFail /\ Fault
          \* target_release.get_assets() raises: no try around line 122
          /\ Abort
          /\ UNCHANGED <<existing, synced_data, has_changes, itemIdx, phase>>
    /\ UNCHANGED <<runs, now, crashes, srcUpdates, persistent, source_releases, relIdx,
                   target_release, src_listing, code_changes, attempt, ret, savePrev,
                   durable, det>>

CodeEntry == [exists |-> TRUE, synced_at |-> now]

ScFile ==
    /\ pc = "sc_file"
    /\ IF itemIdx > Len(source_files)
       THEN \* return has_changes; main goes on with sync_release_assets
            /\ code_changes' = has_changes
            /\ pc' = "ra_list"
            /\ UNCHANGED <<synced_data, itemIdx, ret, savePrev, attempt, log>>
       ELSE IF HasKey(existing, source_files[itemIdx])
       THEN IF ~HasKey(synced_data.source_codes[Rel], source_files[itemIdx])
            THEN /\ synced_data' = [synced_data EXCEPT
                                      !.source_codes[Rel] = Put(@, source_files[itemIdx], CodeEntry)]
                 /\ CallSave("sc_continue")
                 /\ log' = [log EXCEPT !.evaluated = @ \cup {Art}]
                 /\ UNCHANGED <<code_changes, itemIdx, attempt>>
            ELSE /\ itemIdx' = itemIdx + 1
                 /\ pc' = "sc_file"
                 /\ log' = [log EXCEPT !.evaluated = @ \cup {Art}]
                 /\ UNCHANGED <<synced_data, code_changes, ret, savePrev, attempt>>
       ELSE /\ pc' = "dl"
            /\ log' = [log EXCEPT !.evaluated = @ \cup {Art}]
            /\ UNCHANGED <<synced_data, code_changes, itemIdx, ret, savePrev, attempt>>
    /\ UNCHANGED <<budget, persistent, source_releases, relIdx, target_release, existing,
                   src_listing, phase, has_changes, durable, det>>

\* the continue of line 135, after the save of line 134 returned
ScContinue ==
    /\ pc = "sc_continue"
    /\ itemIdx' = itemIdx + 1
    /\ pc' = "sc_file"
    /\ UNCHANGED <<budget, persistent, synced_data, source_releases, relIdx, target_release,
                   existing, src_listing, phase, has_changes, code_changes, attempt, ret,
                   savePrev, durable, log, det>>

(* ---- download_file, lines 244-273 ---- *)
Dl ==
    /\ pc = "dl"
    /\ \/ /\ HasKey(staged, temp_path)           \* the file exists: the download is skipped
          /\ NoFault
          /\ pc' = "ru_delete"
          /\ UNCHANGED staged
          /\ log' = [log EXCEPT !.calls = 0, !.result = "running"]
       \/ /\ ~HasKey(staged, temp_path)
          /\ NoFault
          /\ staged' = Put(staged, temp_path, FullSize)
          /\ pc' = "ru_delete"
          /\ log' = [log EXCEPT !.dl = @ \cup {Art}, !.calls = 0, !.result = "running"]
       \/ /\ ~HasKey(staged, temp_path)
          /\ CanFail /\ Fault
          \* the except block removes what was written and raises again
          /\ pc' = "sync_except"
          /\ UNCHANGED staged
          /\ log' = [log EXCEPT !.dl = @ \cup {Art}]
    /\ attempt' = 0
    /\ UNCHANGED <<runs, now, crashes, srcUpdates, srcAssets, tgtTags, tgtReleases, tgtAssets,
                   fPrimary, fBackup, fTemp, synced_data, source_releases, relIdx,
                   target_release, existing, src_listing, itemIdx, phase, has_changes,
                   code_changes, ret, savePrev, durable, det>>

(* ---- retry_upload and delete_existing_asset, lines 73-106 ---- *)
\* a loop that runs one pass too many
NextAttempt_OneMore(l) ==
    /\ attempt' = attempt + 1
    /\ IF attempt < RETRY_COUNT
       THEN pc' = "ru_delete" /\ log' = l
       ELSE pc' = "sync_failed" /\ log' = [l EXCEPT !.result = "none"]

\* the end of one failed pass of the for loop: sleep, then the next attempt or return None
NextAttempt(l) ==
    /\ attempt' = attempt + 1
    /\ IF attempt + 1 < RETRY_COUNT
       THEN pc' = "ru_delete" /\ log' = l
       ELSE pc' = "sync_failed" /\ log' = [l EXCEPT !.result = "none"]

\* delete_existing_asset once the listing succeeded: what becomes of the target's assets
DeleteOutcome(ok) ==
    IF HasKey(tgtAssets[target_release], ItemName) /\ ok
    THEN tgtAssets' = [tgtAssets EXCEPT ![target_release] = Remove(@, ItemName)]
    ELSE UNCHANGED tgtAssets

RuDelete ==
    /\ pc = "ru_delete"
    /\ \/ /\ NoFault
          /\ DeleteOutcome(TRUE)
          /\ pc' = "ru_upload"
          /\ UNCHANGED <<attempt, log>>
       \/ /\ HasKey(tgtAssets[target_release], ItemName)
          /\ CanFail /\ Fault                    \* delete_asset raises: printed, returns False
          /\ DeleteOutcome(FALSE)
          /\ pc' = "ru_upload"
          /\ UNCHANGED <<attempt, log>>
       \/ /\ CanFail /\ Fault                    \* get_assets raises: caught at line 102
          /\ UNCHANGED tgtAssets
          /\ NextAttempt(log)
    /\ UNCHANGED <<runs, now, crashes, srcUpdates, srcAssets, tgtTags, tgtReleases, fPrimary,
                   fBackup, fTemp, staged, synced_data, source_releases, relIdx,
                   target_release, existing, src_listing, itemIdx, phase, has_changes,
                   code_changes, ret, savePrev, durable, det>>

RuUpload ==
    /\ pc = "ru_upload"
    /\ \/ /\ ~HasKey(tgtAssets[target_release], ItemName)
          /\ NoFault
          /\ tgtAssets' = [tgtAssets EXCEPT ![target_release] =
                              Put(@, ItemName, SomeAsset(staged[temp_path], UTC(now)))]
          /\ pc' = "rec"                         \* return uploaded_asset
          /\ log' = [log EXCEPT !.calls = @ + 1, !.ul = @ \cup {Art}, !.result = "ok"]
          /\ UNCHANGED attempt
       \/ /\ HasKey(tgtAssets[target_release], ItemName)
          /\ NoFault                             \* the name is taken: status 422
          /\ pc' = "ru_conflict"
          /\ log' = [log EXCEPT !.calls = @ + 1]
          /\ UNCHANGED <<tgtAssets, attempt>>
       \/ /\ CanFail /\ Fault                    \* None returned, or another exception
          /\ NextAttempt([log EXCEPT !.calls = @ + 1])
          /\ UNCHANGED tgtAssets
    /\ UNCHANGED <<runs, now, crashes, srcUpdates, srcAssets, tgtTags, tgtReleases, fPrimary,
                   fBackup, fTemp, staged, synced_data, source_releases, relIdx,
                   target_release, existing, src_listing, itemIdx, phase, has_changes,
                   code_changes, ret, savePrev, durable, det>>

RuConflict ==
    /\ pc = "ru_conflict"
    /\ \/ /\ NoFault
          /\ DeleteOutcome(TRUE)
          /\ NextAttempt(log)
       \/ /\ HasKey(tgtAssets[target_release], ItemName)
          /\ CanFail /\ Fault
          /\ DeleteOutcome(FALSE)
          /\ NextAttempt(log)
       \/ /\ CanFail /\ Fault
          \* get_assets raises inside the except block: the exception leaves retry_upload
          /\ UNCHANGED <<tgtAssets, attempt>>
          /\ pc' = "sync_except"
          /\ log' = [log EXCEPT !.result = "raised"]
    /\ UNCHANGED <<runs, now, crashes, srcUpdates, srcAssets, tgtTags, tgtReleases, fPrimary,
                   fBackup, fTemp, staged, synced_data, source_releases, relIdx,
                   target_release, existing, src_listing, itemIdx, phase, has_changes,
                   code_changes, ret, savePrev, durable, det>>

(* ---- the ledger entry of a transferred artifact, lines 146-151 and 220-228 ---- *)
AssetEntry(uploaded) ==
    LET actual_info == get_asset_info(uploaded)
    IN  [name |-> ItemName, size |-> actual_info.size,
         updated_at |-> actual_info.updated_at, synced_at |-> now]

\* a record that leaves the save to a later artifact
Rec_SaveLater ==
    /\ pc = "rec"
    /\ synced_data' =
         IF phase = "code"
         THEN [synced_data EXCEPT !.source_codes[Rel] = Put(@, ItemName, CodeEntry)]
         ELSE [synced_data EXCEPT !.assets[Rel] =
                  Put(@, asset_key(ItemName, src_listing[itemIdx].size),
                      AssetEntry(tgtAssets[target_release][ItemName]))]
    /\ pc' = "rec_done"
    /\ UNCHANGED <<budget, persistent, source_releases, relIdx, target_release, existing,
                   src_listing, itemIdx, phase, has_changes, code_changes, attempt,
                   ret, savePrev, durable, log, det>>

Rec ==
    /\ pc = "rec"
    /\ synced_data' =
         IF phase = "code"
         THEN [synced_data EXCEPT !.source_codes[Rel] = Put(@, ItemName, CodeEntry)]
         ELSE [synced_data EXCEPT !.assets[Rel] =
                  Put(@, asset_key(ItemName, src_listing[itemIdx].size),
                      AssetEntry(tgtAssets[target_release][ItemName]))]
    /\ CallSave("rec_done")
    /\ UNCHANGED <<budget, persistent, source_releases, relIdx, target_release, existing,
                   src_listing, itemIdx, phase, has_changes, code_changes, attempt,
                   durable, log, det>>

\* a loop step that leaves the staging file behind
Finally_KeepsFile ==
    /\ staged' = staged
    /\ itemIdx' = itemIdx + 1
    /\ pc' = IF phase = "code" THEN "sc_file" ELSE "ra_asset"
    /\ attempt' = 0

\* the finally block of lines 158-160 and 235-237, and the step of the for loop
Finally ==
    /\ staged' = IF HasKey(staged, temp_path) THEN Remove(staged, temp_path) ELSE staged
    /\ itemIdx' = itemIdx + 1
    /\ pc' = IF phase = "code" THEN "sc_file" ELSE "ra_asset"
    /\ attempt' = 0

\* lines 152-153 and 229-230: the save returned
RecDone ==
    /\ pc = "rec_done"
    /\ has_changes' = TRUE
    /\ Finally
    /\ UNCHANGED <<budget, srcAssets, tgtTags, tgtReleases, tgtAssets, fPrimary, fBackup, fTemp,
                   synced_data, source_releases, relIdx, target_release, existing,
                   src_listing, phase, code_changes, ret, savePrev, durable, log, det>>

\* an else branch that counts the abandoned artifact as an update
SyncFailed_CountsAsChange ==
    /\ pc = "sync_failed"
    /\ log' = [log EXCEPT !.failed = @ \cup {Art}]
    /\ has_changes' = TRUE
    /\ Finally
    /\ UNCHANGED <<budget, srcAssets, tgtTags, tgtReleases, tgtAssets, fPrimary, fBackup, fTemp,
                   synced_data, source_releases, relIdx, target_release, existing,
                   src_listing, phase, code_changes, ret, savePrev, durable, det>>

\* lines 154-155 and 231-232: retry_upload returned None
SyncFailed ==
    /\ pc = "sync_failed"
    /\ log' = [log EXCEPT !.failed = @ \cup {Art}]
    /\ Finally
    /\ UNCHANGED <<budget, srcAssets, tgtTags, tgtReleases, tgtAssets, fPrimary, fBackup, fTemp,
                   synced_data, source_releases, relIdx, target_release, existing,
                   src_listing, phase, has_changes, code_changes, ret, savePrev, durable, det>>

\* lines 156-157 and 233-234: download_file or retry_upload raised
SyncExcept ==
    /\ pc = "sync_except"
    /\ log' = [log EXCEPT !.failed = @ \cup {Art}]
    /\ Finally
    /\ UNCHANGED <<budget, srcAssets, tgtTags, tgtReleases, tgtAssets, fPrimary, fBackup, fTemp,
                   synced_data, source_releases, relIdx, target_release, existing,
                   src_listing, phase, has_changes, code_changes, ret, savePrev, durable, det>>

(* ---- save_synced_data, lines 47-59 ---- *)
SavePcs == {"sv_write", "sv_rotate", "sv_promote", "sv_except"}

SaveReturn ==
    /\ pc' = ret
    /\ ret' = "none"

\* a save that rotates and promotes although the temp write failed
SvWrite_Unchecked ==
    /\ pc = "sv_write"
    /\ \/ /\ NoFault
          /\ fTemp' = ValidFile(synced_data)
       \/ /\ CanFail /\ Fault
          /\ fTemp' = PartialFile
    /\ pc' = "sv_rotate"
    /\ UNCHANGED <<runs, now, crashes, srcUpdates, srcAssets, tgtTags, tgtReleases, tgtAssets,
                   fPrimary, fBackup, staged, synced_data, locals, savePrev, durable, log, det>>

\* lines 50-51: open(temp_file, 'w') and json.dump
SvWrite ==
    /\ pc = "sv_write"
    /\ \/ /\ NoFault
          /\ fTemp' = ValidFile(synced_data)
          /\ pc' = "sv_rotate"
       \/ /\ CanFail /\ Fault
          /\ \/ fTemp' = fTemp                   \* the file could not be opened
             \/ fTemp' = PartialFile             \* the write broke off
          /\ pc' = "sv_except"
    /\ UNCHANGED <<runs, now, crashes, srcUpdates, srcAssets, tgtTags, tgtReleases, tgtAssets,
                   fPrimary, fBackup, staged, synced_data, locals, savePrev, durable, log, det>>

\* lines 52-53: os.replace(SYNCED_DATA_FILE, SYNCED_DATA_BACKUP) when the primary exists
SvRotate ==
    /\ pc = "sv_rotate"
    /\ \/ /\ fPrimary.st # "absent"
          /\ NoFault
          /\ fBackup' = fPrimary
          /\ fPrimary' = AbsentFile
          /\ pc' = "sv_promote"
       \/ /\ fPrimary.st = "absent"
          /\ NoFault
          /\ pc' = "sv_promote"
          /\ UNCHANGED <<fPrimary, fBackup>>
       \/ /\ fPrimary.st # "absent"
          /\ CanFail /\ Fault
          /\ pc' = "sv_except"
          /\ UNCHANGED <<fPrimary, fBackup>>
    /\ UNCHANGED <<runs, now, crashes, srcUpdates, srcAssets, tgtTags, tgtReleases, tgtAssets,
                   fTemp, staged, synced_data, locals, savePrev, durable, log, det>>

\* line 54: os.replace(temp_file, SYNCED_DATA_FILE); the function returns
SvPromote ==
    /\ pc = "sv_promote"
    /\ \/ /\ NoFault
          /\ fPrimary' = fTemp
          /\ fTemp' = AbsentFile
          /\ durable' = Entries(fTemp.data)
          /\ SaveReturn
       \/ /\ CanFail /\ Fault
          /\ pc' = "sv_except"
          /\ UNCHANGED <<fPrimary, fTemp, durable, ret>>
    /\ UNCHANGED <<runs, now, crashes, srcUpdates, srcAssets, tgtTags, tgtReleases, tgtAssets,
                   fBackup, staged, synced_data, source_releases, relIdx, target_release,
                   existing, src_listing, itemIdx, phase, has_changes, code_changes, attempt,
                   savePrev, log, det>>

\* an except block that removes the temp file and raises again
SvExcept_Raises ==
    /\ pc = "sv_except"
    /\ fTemp' = AbsentFile
    /\ pc' = "main_finally"
    /\ ret' = "none"
    /\ log' = [log EXCEPT !.status = "aborted"]
    /\ UNCHANGED <<budget, srcAssets, tgtTags, tgtReleases, tgtAssets, fPrimary, fBackup,
                   staged, synced_data, source_releases, relIdx, target_release, existing,
                   src_listing, itemIdx, phase, has_changes, code_changes, attempt,
                   savePrev, durable, det>>

\* lines 56-59: the failure is printed, the temp file removed; the function returns
SvExcept ==
    /\ pc = "sv_except"
    /\ fTemp' = AbsentFile
    /\ SaveReturn
    /\ UNCHANGED <<budget, srcAssets, tgtTags, tgtReleases, tgtAssets, fPrimary, fBackup,
                   staged, synced_data, source_releases, relIdx, target_release, existing,
                   src_listing, itemIdx, phase, has_changes, code_changes, attempt,
                   savePrev, durable, log, det>>

(* ---- sync_release_assets, lines 167-240 ---- *)
\* list(source_release.get_assets()) and the target's listing, lines 168-172
ListingOf(assets) == [n \in DOMAIN assets |-> assets[n]]

RaList ==
    /\ pc = "ra_list"
    /\ \/ /\ NoFault
          /\ src_listing' = srcAssets[Rel]
          /\ existing' = ListingOf(tgtAssets[target_release])
          /\ synced_data' = [synced_data EXCEPT !.assets = SetDefault(@, Rel, EmptyMap)]
          /\ has_changes' = FALSE
          /\ itemIdx' = 1
          /\ phase' = "asset"
          /\ pc' = "ra_asset"
          /\ UNCHANGED log
       \/ /\ CanFail /\ Fault
          \* either get_assets() raises: no try around lines 169-170
          /\ Abort
          /\ UNCHANGED <<src_listing, existing, synced_data, has_changes, itemIdx, phase>>
    /\ UNCHANGED <<runs, now, crashes, srcUpdates, persistent, source_releases, relIdx,
                   target_release, code_changes, attempt, ret, savePrev, durable, det>>

RaAsset ==
    /\ pc = "ra_asset"
    /\ IF itemIdx > Len(src_listing)
       THEN \* return has_changes: it is asset_changes of main
            /\ pc' = "mark"
            /\ UNCHANGED <<itemIdx, log>>
       ELSE /\ log' = [log EXCEPT !.evaluated = @ \cup {Art}]
            /\ IF need_sync(synced_data.assets[Rel], src_listing[itemIdx],
                            GetAsset(existing, ItemName))
               THEN pc' = "dl" /\ UNCHANGED itemIdx
               ELSE pc' = "ra_asset" /\ itemIdx' = itemIdx + 1
    /\ UNCHANGED <<budget, persistent, synced_data, source_releases, relIdx, target_release,
                   existing, src_listing, phase, has_changes, code_changes, attempt, ret,
                   savePrev, durable, det>>

(* ---- main, lines 380-394 ---- *)
Mark ==
    /\ pc = "mark"
    /\ has_changes' = (code_changes \/ has_changes)      \* has_any_changes
    /\ synced_data' = [synced_data EXCEPT !.releases =
                          Put(@, Rel, [tag_name |-> Rel, fully_synced_at |-> now])]
    /\ CallSave("push")
    /\ UNCHANGED <<budget, persistent, source_releases, relIdx, target_release, existing,
                   src_listing, itemIdx, phase, code_changes, attempt, durable, log, det>>

Push ==
    /\ pc = "push"
    /\ IF has_changes
       THEN Advance([log EXCEPT !.push = @ \cup {Rel}])      \* push_after_version(tag_name)
       ELSE Advance(log)
    /\ target_release' = NoneRelease
    /\ existing' = EmptyMap
    /\ src_listing' = <<>>
    /\ itemIdx' = 0
    /\ phase' = "none"
    /\ has_changes' = FALSE
    /\ code_changes' = FALSE
    /\ UNCHANGED <<budget, persistent, synced_data, source_releases, attempt, ret, savePrev,
                   durable, det>>

\* lines 396-407: the run ends; every temp_ file of the directory is removed
MainFinally ==
    /\ pc = "main_finally"
    /\ staged' = EmptyMap
    /\ pc' = "idle"
    /\ log' = [log EXCEPT !.final = synced_data]
    /\ LocalsReset
    /\ UNCHANGED <<budget, srcAssets, tgtTags, tgtReleases, tgtAssets, fPrimary, fBackup,
                   fTemp, durable, det>>

(* ---- the environment ---- *)
\* the process is killed; a write in progress leaves what it had written
Crash ==
    /\ pc # "idle"
    /\ crashes < MaxCrashes
    /\ crashes' = crashes + 1
    /\ pc' = "idle"
    /\ log' = [log EXCEPT !.status = IF pc \in SavePcs THEN "crashed in save" ELSE "crashed"]
    /\ IF pc = "sv_write"
       THEN fTemp' \in {fTemp, PartialFile}
       ELSE UNCHANGED fTemp
    /\ IF pc = "dl" /\ ~HasKey(staged, temp_path)
       THEN staged' \in {staged} \cup {Put(staged, temp_path, k) : k \in 0..(FullSize - 1)}
       ELSE UNCHANGED staged
    /\ LocalsReset
    /\ UNCHANGED <<runs, now, faults, srcUpdates, srcAssets, tgtTags, tgtReleases, tgtAssets,
                   fPrimary, fBackup, durable, det>>

\* between two runs the owner of the source replaces an asset by one of another size
SourceUpdate ==
    /\ pc = "idle"
    /\ srcUpdates < MaxSrcUpdates
    /\ 0 < runs /\ runs < MaxRuns
    /\ srcUpdates' = srcUpdates + 1
    /\ now' = now + 1
    /\ \E r \in Releases, i \in 1..MaxAssets, sz \in 1..MaxSize :
          /\ sz # srcAssets[r][i].size
          /\ srcAssets' = [srcAssets EXCEPT ![r][i] =
                              [@ EXCEPT !.size = sz, !.updated_at = UTC(now + 1),
                                        !.id = @ + 100]]
    /\ log' = [log EXCEPT !.fresh = FALSE]
    /\ UNCHANGED <<pc, runs, faults, crashes, tgtTags, tgtReleases, tgtAssets, fPrimary,
                   fBackup, fTemp, staged, synced_data, locals, savePrev, durable, det>>

Next ==
    \/ StartRun \/ MainList
    \/ GocList \/ GocTag \/ GocCreate \/ GocRelist
    \/ ScList \/ ScFile \/ ScContinue
    \/ Dl \/ RuDelete \/ RuUpload \/ RuConflict
    \/ Rec \/ RecDone \/ SyncFailed \/ SyncExcept
    \/ SvWrite \/ SvRotate \/ SvPromote \/ SvExcept
    \/ RaList \/ RaAsset \/ Mark \/ Push \/ MainFinally
    \/ Crash \/ SourceUpdate

Spec == Init /\ [][Next]_vars

(* ---- load_synced_data on its own: every state of the two files ---- *)
SampleLedgers ==
    {[releases |-> [r \in rs |-> [tag_name |-> r, fully_synced_at |-> 0]],
      assets |-> EmptyMap,
      source_codes |-> [t \in ts |-> EmptyMap]] : rs \in SUBSET Releases, ts \in SUBSET Releases}

FileStates == {AbsentFile, PartialFile} \cup {ValidFile(d) : d \in SampleLedgers}

InitLoad ==
    /\ pc = "idle" /\ runs = 0 /\ now = 0 /\ faults = 0 /\ crashes = 0 /\ srcUpdates = 0
    /\ srcAssets = [r \in Releases |-> [i \in 1..MaxAssets |-> InitAsset(r, i)]]
    /\ tgtTags = {} /\ tgtReleases = {} /\ tgtAssets = [r \in Releases |-> EmptyMap]
    /\ fPrimary \in FileStates
    /\ fBackup \in FileStates
    /\ fTemp = AbsentFile
    /\ staged = EmptyMap /\ durable = {} /\ log = EmptyLog
    /\ LocalsInit
    /\ det = NoDet

\* main, line 354
LoadStep ==
    /\ pc = "idle"
    /\ synced_data' = load_synced_data(fPrimary, fBackup)
    /\ pc' = "loaded"
    /\ UNCHANGED <<budget, persistent, locals, savePrev, durable, log, det>>

SpecLoad == InitLoad /\ [][LoadStep]_vars

(* ---- the change detector on its own: every input ---- *)
MaxWall == 2
Offsets == {-1, 0, 1}
Times == {NoneTime} \cup {[some |-> TRUE, wall |-> w, off |-> o] : w \in 0..MaxWall, o \in Offsets}

DetInputs ==
    {[entry |-> e, asset |-> [name |-> "a", size |-> s, updated_at |-> t, id |-> 0],
      target |-> g, out |-> "unset"] :
        e \in SUBSET (1..MaxSize), s \in 1..MaxSize, t \in Times,
        g \in {NoneAsset} \cup {SomeAsset(gs, gt) : gs \in 1..MaxSize, gt \in Times}}

\* synced_data['assets'][source_id] holding the asset's name at the sizes of det.entry
DetEntries(d) ==
    [k \in {asset_key(d.asset.name, s) : s \in d.entry} |->
        [name |-> d.asset.name, size |-> k[2], updated_at |-> NoneIso, synced_at |-> 0]]

InitDetect == InitWorld /\ det \in DetInputs

\* lines 187-210
DetectStep ==
    /\ det.out = "unset"
    /\ det' = [det EXCEPT !.out = IF need_sync(DetEntries(det), det.asset, det.target)
                                  THEN "sync" ELSE "skip"]
    /\ UNCHANGED <<pc, budget, persistent, synced_data, locals, savePrev, durable, log>>

SpecDetect == InitDetect /\ [][DetectStep]_vars

(***************************************************************************)
(* Properties                                                              *)
(***************************************************************************)
\* C1: a run that follows a process kill inside save_synced_data loads a ledger
\* that holds every entry written by the last save that completed.
C1_CrashKeepsRecordedProgress ==
    (pc = "main_list" /\ log.prev = "crashed in save")
        => durable \subseteq Entries(synced_data)

\* C2: load_synced_data returns the primary's contents when the primary can be
\* read, else the backup's contents when the backup can be read, else the empty
\* ledger, whatever the state (valid, invalid, absent) of the two files.
C2_LoadFallsBackToBackup ==
    pc = "loaded" =>
        synced_data = IF CanLoad(fPrimary) THEN fPrimary.data
                      ELSE IF CanLoad(fBackup) THEN fBackup.data
                      ELSE EmptyLedger

\* C3: inside a save the temp file is whole before the primary is rotated, the
\* rotation precedes the promotion, the primary path never holds a partly
\* written ledger, and the ledger that was the valid primary when the save
\* began is whole at the primary path or at the backup path, also when the
\* save fails at any step.
C3_SaveKeepsPreviousPrimary ==
    /\ fPrimary.st # "partial"
    /\ pc = "sv_rotate" => fTemp = ValidFile(synced_data)
    /\ pc = "sv_promote" =>
          /\ fTemp = ValidFile(synced_data)
          /\ fPrimary.st = "absent"
          /\ savePrev.st = "valid" => fBackup = savePrev
    /\ savePrev.st = "valid" => (fPrimary = savePrev \/ fBackup = savePrev)

\* a save failed at the promotion, after a valid primary was rotated away
C3_Witness ==
    /\ pc = "sv_except"
    /\ savePrev.st = "valid"
    /\ fPrimary.st = "absent"
    /\ fBackup = savePrev

(* ---- change detection ---- *)
Instant(t) == t.wall - t.off
HasEntry(d) == d.asset.size \in d.entry
SameSize(d) == d.target.present /\ d.asset.size = d.target.size
BothTimes(d) == d.asset.updated_at.some /\ d.target.updated_at.some

\* C4: the detector syncs exactly when (1) the ledger has no entry for
\* name+size, or (2) the target lists no asset of that name, or (3) the sizes
\* differ, or (4) both timestamps exist and the source's instant is strictly
\* later; with entry, target and equal sizes, a target instant later than or
\* equal to the source's gives no sync.
C4_DetectionIsTheOrderedDecision ==
    det.out # "unset" =>
        /\ det.out = "sync" <=>
              \/ ~HasEntry(det)
              \/ ~det.target.present
              \/ det.asset.size # det.target.size
              \/ BothTimes(det) /\ Instant(det.asset.updated_at) > Instant(det.target.updated_at)
        /\ (/\ HasEntry(det) /\ SameSize(det) /\ BothTimes(det)
            /\ Instant(det.target.updated_at) >= Instant(det.asset.updated_at))
              => det.out = "skip"

\* equal instants written with different offsets: no sync
C4_Witness ==
    /\ det.out = "skip"
    /\ BothTimes(det)
    /\ Instant(det.asset.updated_at) = Instant(det.target.updated_at)
    /\ det.asset.updated_at.wall > det.target.updated_at.wall

MissingTime(d) == HasEntry(d) /\ SameSize(d) /\ ~BothTimes(d)

\* C5 as stated: with entry, target copy and equal sizes, a timestamp missing on
\* either side makes the detector report sync required.
C5_MissingTimestampSyncs ==
    (det.out # "unset" /\ MissingTime(det)) => det.out = "sync"

\* C5 as amended: with entry, target copy and equal sizes, a timestamp missing on
\* either side makes the detector report no sync; a missing ledger entry or a
\* missing target copy is what resolves toward syncing.
C5_MissingTimestampSkips ==
    det.out # "unset" =>
        /\ MissingTime(det) => det.out = "skip"
        /\ (~HasEntry(det) \/ ~det.target.present) => det.out = "sync"

C5_Witness ==
    /\ det.out = "skip"
    /\ MissingTime(det)
    /\ det.asset.updated_at.some
    /\ ~det.target.updated_at.some

(* ---- runs ---- *)
\* the ledger without the fully-synced timestamps of its releases
Strip(d) == [d EXCEPT !.releases = [r \in DOMAIN d.releases |-> d.releases[r].tag_name]]
RunEnded == pc = "idle" /\ log.status \in {"complete", "aborted"}
Visited == {log.visited[i] : i \in 1..Len(log.visited)}
SameArtifact(e, a) == e[1] = a[1] /\ e[2] = a[2] /\ e[3] = a[3]
ArtifactsOf(r) == {<<"code", r, source_files[i]>> : i \in 1..Len(source_files)}
                    \cup {<<"asset", r, srcAssets[r][i].name>> : i \in 1..Len(srcAssets[r])}

\* C6: a run that follows a run in which every required transfer succeeded, the
\* source and the target unchanged in between, downloads nothing, uploads
\* nothing, calls push_after_version for no release and ends with the ledger it
\* found, the fully-synced timestamps apart.
C6_SecondRunIsIdle ==
    log.prev = "clean" =>
        /\ log.dl = {}
        /\ log.ul = {}
        /\ log.push = {}
        /\ (pc = "idle" /\ log.status = "complete") => Strip(log.final) = Strip(log.prevFinal)

\* C7: a run that follows a killed run neither downloads nor uploads an
\* artifact that the killed run had transferred and recorded.
C7_ResumeSkipsTransferred ==
    log.prev \in {"crashed", "crashed in save"} =>
        \A a \in log.dl \cup log.ul : \A e \in log.had : ~SameArtifact(e, a)

\* C8: when a run has ended, push_after_version was called for a release if and
\* only if an artifact of that release completed a transfer in this run.
C8_CommitIffTransfer ==
    RunEnded => \A r \in Releases : (r \in log.push) <=> (\E a \in log.ul : a[2] = r)

\* C9: a run whose release listing succeeded is never aborted by the failure of
\* one external call: it visits every source release and evaluates every
\* artifact of each release whose target release it obtained.
C9_FailureIsContained ==
    (RunEnded /\ log.listed) =>
        /\ log.status = "complete"
        /\ Visited = Releases
        /\ \A r \in Visited \ log.skipped : ArtifactsOf(r) \subseteq log.evaluated

(* ---- retry_upload ---- *)
InRetry == pc \in {"ru_delete", "ru_upload", "ru_conflict"}

RetryBounded ==
    /\ log.calls <= RETRY_COUNT
    /\ InRetry =>
          /\ attempt < RETRY_COUNT
          /\ log.result = "running"
          /\ Art \notin log.ul
          /\ log.calls <= attempt + (IF pc = "ru_conflict" THEN 1 ELSE 0)
    /\ pc = "rec" => (log.result = "ok" /\ attempt < RETRY_COUNT /\ log.calls <= attempt + 1)
    /\ pc = "sync_failed" <=> attempt = RETRY_COUNT
    /\ pc = "sync_failed" => log.result = "none"
    /\ (pc = "sync_except" /\ log.result = "raised") => attempt < RETRY_COUNT

RetryStep ==
    /\ (pc = "ru_upload" /\ log'.ul # log.ul) => (pc' = "rec" /\ attempt' = attempt)
    /\ (InRetry /\ pc' = "ru_delete") => attempt' = attempt + 1
    /\ (InRetry /\ pc' = "sync_failed") => attempt' = attempt + 1
    /\ (InRetry /\ InRetry' /\ pc' # "ru_delete") =>
          /\ attempt' = attempt
          /\ <<pc, pc'>> \in {<<"ru_delete", "ru_upload">>, <<"ru_upload", "ru_conflict">>}

\* C10: retry_upload calls upload at most RETRY_COUNT times; the first upload
\* that succeeds ends the call at once, with no further delete or upload; it
\* returns None exactly when RETRY_COUNT attempts have failed; every failed
\* attempt, a 422 conflict or any other failure, moves the loop one attempt
\* forward, so the call ends.
C10_RetryIsBounded == []RetryBounded /\ [][RetryStep]_vars

\* three uploads were called, each failed, and the call returns None
C10_Witness ==
    /\ pc = "sync_failed"
    /\ attempt = RETRY_COUNT
    /\ log.calls = RETRY_COUNT
    /\ log.result = "none"

(* ---- one artifact: download, retry_upload, record ---- *)
ItemPcs == {"sc_file", "ra_asset"}
Files == <<fPrimary, fBackup, fTemp>>
Killed == pc' = "idle" /\ crashes' = crashes + 1

\* from the download to the return of retry_upload the ledger, the change flag
\* and the ledger files are those the artifact found
AttemptKeepsLedger ==
    (pc \in {"dl", "ru_delete", "ru_upload", "ru_conflict"} /\ ~Killed) =>
        /\ synced_data' = synced_data
        /\ has_changes' = has_changes
        /\ Files' = Files
        /\ pc' \notin SavePcs

\* retry_upload returned None: nothing is recorded or saved, and the loop of
\* the same release takes its next artifact
ExhaustionStep ==
    (pc = "sync_failed" /\ ~Killed) =>
        /\ synced_data' = synced_data
        /\ has_changes' = has_changes
        /\ Files' = Files
        /\ pc' \in ItemPcs
        /\ itemIdx' = itemIdx + 1
        /\ relIdx' = relIdx /\ phase' = phase
        /\ log'.status = "running"

\* a release is pushed only for an artifact uploaded in this run
PushNeedsUpload ==
    /\ (pc = "push" /\ has_changes) => \E a \in log.ul : a[2] = Rel
    /\ \A r \in log.push : \E a \in log.ul : a[2] = r

\* C11: when all RETRY_COUNT upload attempts of an artifact have failed, the
\* ledger has gained no entry for it and no save was called for it, the
\* artifact does not count as a change for the commit decision, and the run
\* goes on with the next artifact of the same release.
C11_ExhaustionRecordsNothing ==
    /\ [][AttemptKeepsLedger /\ ExhaustionStep]_vars
    /\ []PushNeedsUpload

\* the zip archive was given up after RETRY_COUNT attempts; the tar.gz is next
C11_Witness ==
    /\ pc = "sc_file"
    /\ itemIdx = 2
    /\ log.failed = {<<"code", Rel, "zip">>}
    /\ log.calls = RETRY_COUNT
    /\ log.result = "none"
    /\ ~HasKey(synced_data.source_codes[Rel], "zip")
    /\ ~has_changes

(* ---- the ledger inside one run ---- *)
InRun == pc # "idle" /\ pc' # "idle"
KeepsKeys(m, n) == \A k \in DOMAIN m : k \in DOMAIN n
KeepsSubKeys(m, n) == \A k \in DOMAIN m : k \in DOMAIN n /\ KeepsKeys(m[k], n[k])
SourceSize == src_listing[itemIdx].size
\* the ledger holds the name at a size the source no longer reports, and the
\* size reported now is not the size that was mirrored
SizeChanged ==
    /\ pc = "ra_asset" /\ itemIdx <= Len(src_listing)
    /\ \E s1 \in (1..(MaxSize + 1)) \ {SourceSize} : HasKey(synced_data.assets[Rel], <<ItemName, s1>>)
    /\ \/ ~HasKey(synced_data.assets[Rel], <<ItemName, SourceSize>>)
       \/ ~HasKey(existing, ItemName)
       \/ existing[ItemName].size # SourceSize

\* no key leaves releases, assets or source_codes while a run is going
NoKeyRemoved ==
    InRun =>
        /\ KeepsKeys(synced_data.releases, synced_data'.releases)
        /\ KeepsSubKeys(synced_data.assets, synced_data'.assets)
        /\ KeepsSubKeys(synced_data.source_codes, synced_data'.source_codes)

\* recording a transferred asset writes the key (name, size reported by the
\* source) and leaves every other entry of the ledger as it was
RecordAddsKey ==
    (pc = "rec" /\ phase = "asset" /\ ~Killed) =>
        /\ HasKey(synced_data'.assets[Rel], <<ItemName, SourceSize>>)
        /\ \A r \in DOMAIN synced_data.assets : \A k \in DOMAIN synced_data.assets[r] :
              (r # Rel \/ k # <<ItemName, SourceSize>>)
                  => synced_data'.assets[r][k] = synced_data.assets[r][k]
        /\ synced_data'.releases = synced_data.releases
        /\ synced_data'.source_codes = synced_data.source_codes

\* C12: an asset the ledger holds at size s1 and the source now reports at
\* another size s2 is detected as sync required; the record of its re-sync
\* adds the key (name, s2) and leaves the entry (name, s1) present and
\* unchanged; no step of a run removes a key from releases, assets or
\* source_codes.
C12_SizeChangeIsNewIdentity ==
    [][/\ (SizeChanged /\ ~Killed) => (pc' = "dl" /\ itemIdx' = itemIdx)
       /\ RecordAddsKey
       /\ NoKeyRemoved]_vars

\* the re-sync of an asset whose size went from 1 to 2 was recorded
C12_Witness ==
    /\ pc = "rec_done"
    /\ phase = "asset"
    /\ SourceSize = 2
    /\ HasKey(synced_data.assets[Rel], <<ItemName, 1>>)
    /\ HasKey(synced_data.assets[Rel], <<ItemName, 2>>)
    /\ synced_data.assets[Rel][<<ItemName, 1>>].size = 1

(* ---- order of the work of one run ---- *)
Current == log.visited[Len(log.visited)]
AssetsEvaluated(r) == {a \in log.evaluated : a[1] = "asset" /\ a[2] = r}
CodeEvaluated(r) == {a \in log.evaluated : a[1] = "code" /\ a[2] = r}
Touched == log.evaluated \cup log.dl \cup log.ul

\* the releases visited so far are in ascending creation time, each visited once
AscendingVisits ==
    \A i, j \in 1..Len(log.visited) :
        i < j => created_at(log.visited[i]) < created_at(log.visited[j])

\* an asset of a release is evaluated only after both of its archives
ArchivesFirst ==
    \A r \in Releases :
        AssetsEvaluated(r) # {} => CodeEvaluated(r) = {<<"code", r, f>> : f \in {"zip", "tgz"}}

\* every evaluation, download and upload is for the release visited last; an
\* archive is evaluated or transferred while no asset of its release was evaluated
OneReleaseAtATime ==
    \A a \in Touched' \ Touched :
        /\ Len(log'.visited) > 0
        /\ a[2] = log'.visited[Len(log'.visited)]
        /\ log'.visited = log.visited
        /\ a[1] = "code" => AssetsEvaluated(a[2]) = {}
\* archives are also transferred before the assets are evaluated
TransfersInOrder ==
    \A a \in (log.dl' \cup log.ul') \ (log.dl \cup log.ul) :
        a[1] = "code" => AssetsEvaluated(a[2]) = {}
\* the next release is visited when the work of the one before is over
VisitAfterWork ==
    Len(log'.visited) > Len(log.visited) =>
        /\ pc = "goc_list"
        /\ phase = "none"

\* C13: in a run the source releases are visited in ascending order of
\* created_at, one at a time; within a release both source archives are
\* evaluated, and transferred when needed, before any asset of the release is
\* evaluated; the work of a release is over before the next release begins.
C13_OldestFirstArchivesFirst ==
    /\ [](AscendingVisits /\ ArchivesFirst)
    /\ [][OneReleaseAtATime /\ TransfersInOrder /\ VisitAfterWork]_vars

\* the release created last is visited second although the platform lists it
\* first, and its asset is being evaluated after its two archives
C13_Witness ==
    /\ Len(log.visited) = NumReleases
    /\ SourceListing[1] = log.visited[NumReleases]
    /\ pc = "ra_asset"
    /\ AssetsEvaluated(Rel) # {}
    /\ <<"code", Rel, "zip">> \in log.ul

(* ---- save_synced_data seen by its caller ---- *)
SaveReturns == {"sc_continue", "rec_done", "push"}

\* no step of a save touches the in-memory ledger or leaves the save other
\* than by its return
SaveKeepsLedger ==
    (pc \in SavePcs /\ ~Killed) =>
        /\ synced_data' = synced_data
        /\ pc' \in SavePcs \cup {ret}
        /\ ret \in SaveReturns
        /\ log'.status = "running"

\* the except block: the temp file is gone and the call returns to its caller
FailedSaveReturns ==
    (pc = "sv_except" /\ ~Killed) =>
        /\ fTemp'.st = "absent"
        /\ pc' = ret
        /\ Files'[1] = fPrimary /\ Files'[2] = fBackup

\* a save that reaches its last line leaves the whole in-memory ledger at the
\* primary path
GoodSaveReconciles ==
    (pc = "sv_promote" /\ pc' \notin SavePcs /\ ~Killed) =>
        /\ fPrimary' = ValidFile(synced_data')
        /\ fTemp'.st = "absent"
        /\ durable' = Entries(synced_data')

\* C14: a save that fails at any step removes the temp file, returns without
\* raising and leaves the in-memory ledger as it was; the run goes on, and
\* the next save that succeeds leaves at the primary path the whole
\* in-memory ledger, the entries whose own save had failed included.
C14_FailedSaveIsReconciled ==
    [][SaveKeepsLedger /\ FailedSaveReturns /\ GoodSaveReconciles]_vars

\* the save of the zip entry had failed, no ledger file existed; the save of
\* the tar.gz entry has put both entries at the primary path
C14_Witness ==
    /\ pc = "rec_done"
    /\ Art = <<"code", Rel, "tgz">>
    /\ <<"code", Rel, "zip">> \in log.ul
    /\ faults > 0
    /\ fBackup.st = "absent"
    /\ fPrimary = ValidFile(synced_data)
    /\ {"zip", "tgz"} \subseteq DOMAIN synced_data.source_codes[Rel]

(* ---- get_or_create_release seen by main ---- *)
\* the tag and the release are created only when the first listing lacks the tag
CreateOnlyWhenUnlisted ==
    pc' \in {"goc_tag", "goc_create"} => Rel \notin tgtReleases

\* a failure of the tag or of the creation leads to the second listing
FailedCreateRelists ==
    (pc \in {"goc_tag", "goc_create"} /\ faults' # faults) => pc' = "goc_relist"

\* the second listing is taken once: it returns the release that now exists,
\* or None, and on None main goes to the next release and leaves the ledger,
\* the ledger files, the target's assets and the pushes as they were
RelistDecides ==
    (pc = "goc_relist" /\ ~Killed) =>
        IF Rel \in tgtReleases
        THEN target_release' = Rel /\ pc' = "sc_list"
        ELSE /\ synced_data' = synced_data
             /\ Files' = Files
             /\ tgtAssets' = tgtAssets
             /\ log'.push = log.push /\ log'.dl = log.dl /\ log'.ul = log.ul
             /\ log'.status # "aborted"
             /\ IF relIdx < Len(source_releases)
                THEN relIdx' = relIdx + 1 /\ pc' = "goc_list"
                ELSE pc' = "main_finally"

\* C15: get_or_create_release never creates a release the target already
\* lists; when the tag or the creation fails it lists the target's releases
\* once more and returns the matching release if there is one, else None;
\* on None main skips the release, with no transfer, no ledger change and no
\* commit for it, and goes on to the next release.
C15_ProvisioningSkipsAndProceeds ==
    [][CreateOnlyWhenUnlisted /\ FailedCreateRelists /\ RelistDecides]_vars

(* ---- the record of an upload ---- *)
TransferPcs == {"dl", "ru_delete", "ru_upload", "ru_conflict"}
Recorded(a) == \E e \in Entries(synced_data) : SameArtifact(e, a)

\* while an artifact is downloaded or uploaded, every upload made before in
\* the run has its ledger entry; at the record the one upload without an
\* entry is the artifact at hand
UploadsAreRecorded ==
    /\ pc \in TransferPcs => \A a \in log.ul : Recorded(a)
    /\ pc = "rec" => (Art \in log.ul /\ \A a \in log.ul \ {Art} : Recorded(a))

\* the upload that succeeds goes to the record, and the record writes the
\* entry and calls the save at once, before has_changes is set
RecordThenSave ==
    /\ (pc = "ru_upload" /\ log'.ul # log.ul) => pc' = "rec"
    /\ (pc = "rec" /\ ~Killed) =>
          /\ \E e \in Entries(synced_data') : SameArtifact(e, Art)
          /\ pc' = "sv_write"
          /\ ret' = "rec_done"
          /\ has_changes' = has_changes
    /\ (pc = "sv_write" /\ ret = "rec_done" /\ pc' = "sv_rotate") => fTemp' = ValidFile(synced_data)
    /\ pc' = "dl" => pc \in ItemPcs

\* C16: after each upload that succeeded the ledger entry of the artifact is
\* written and save_synced_data is called before the download or the upload
\* of any later artifact begins: one save per upload, made before the change
\* flag is set and so whether or not the release is later pushed.
C16_SaveFollowsEachUpload ==
    /\ []UploadsAreRecorded
    /\ [][RecordThenSave]_vars

\* the tar.gz is about to be downloaded; the zip uploaded before it is in the
\* ledger, and its save has put it at the primary path
C16_Witness ==
    /\ pc = "dl"
    /\ Art = <<"code", Rel, "tgz">>
    /\ log.ul = {<<"code", Rel, "zip">>}
    /\ fPrimary = ValidFile(synced_data)
    /\ HasKey(synced_data.source_codes[Rel], "zip")

(* ---- the fully-synced mark ---- *)
Obtained == target_release # NoneRelease
LeavesRelease == pc' = "main_finally" \/ (pc' = "goc_list" /\ relIdx' # relIdx)

\* main leaves a release whose target release it holds only after the mark
\* of this run was written and its save called
MarkedBeforeLeaving ==
    (Obtained /\ LeavesRelease) =>
        /\ pc = "push"
        /\ HasKey(synced_data.releases, Rel)
        /\ synced_data.releases[Rel] = [tag_name |-> Rel, fully_synced_at |-> now]

\* the mark is written and saved before the commit decision and does not
\* enter it
MarkStep ==
    (pc = "mark" /\ ~Killed) =>
        /\ synced_data'.releases = Put(synced_data.releases, Rel,
                                        [tag_name |-> Rel, fully_synced_at |-> now])
        /\ pc' = "sv_write" /\ ret' = "push"
        /\ has_changes' = (code_changes \/ has_changes)
        /\ log'.push = log.push

\* C17: every release whose target release was obtained gets its
\* releases[source id] entry (tag, time), saved at the end of its processing,
\* whatever became of its transfers; the mark comes before the commit
\* decision and is never a reason to commit.
C17_ObtainedReleaseIsMarked ==
    [][MarkedBeforeLeaving /\ MarkStep]_vars

(* ---- staging files ---- *)
AttemptEnds == pc \in {"rec_done", "sync_failed", "sync_except"}
BetweenArtifacts == pc \in ItemPcs \cup {"goc_list", "sc_list", "ra_list", "mark", "push"}

\* the end of an attempt sequence, whatever its outcome, removes the staging
\* file of the artifact in the step that moves to the next artifact
AttemptCleansUp ==
    (AttemptEnds /\ ~Killed) =>
        /\ ~HasKey(staged', temp_path)
        /\ pc' \in ItemPcs
        /\ \A q \in DOMAIN staged' : q \in DOMAIN staged

\* a staging file is seen between two artifacts only if a killed run left it;
\* a run that ended, completed or aborted, leaves none
NoStagingLeft ==
    /\ (crashes = 0 /\ BetweenArtifacts) => staged = EmptyMap
    /\ RunEnded => staged = EmptyMap

\* C18: when the attempt sequence of an artifact ends, by an upload, by
\* retry exhaustion or by an exception, its staging file is gone before the
\* next artifact is handled; when a run ends, normally or through the
\* top-level except, no temp_ staging file remains.
C18_StagingIsCleaned ==
    /\ []NoStagingLeft
    /\ [][AttemptCleansUp]_vars

\* the attempt of an asset ended by an exception raised in the 422 handler,
\* after its download; the staging file is gone
C18_Witness ==
    /\ pc = "ra_asset"
    /\ itemIdx = 2
    /\ log.result = "raised"
    /\ <<"asset", Rel, src_listing[1].name>> \in log.failed
    /\ staged = EmptyMap

(* ---- what reaches the target ---- *)
\* C19: whatever runs and process kills came before, every archive and asset
\* uploaded to the target is a whole copy of the source artifact: the staging
\* file that download_file finds and reuses is never a partly written one,
\* so no truncated archive stays on the target behind the presence check.
C19_UploadsAreWhole ==
    /\ pc = "ru_upload" => staged[temp_path] = FullSize
    /\ pc = "rec" => tgtAssets[target_release][ItemName].size = FullSize
    /\ \A r \in Releases : \A f \in {"zip", "tgz"} :
          HasKey(tgtAssets[r], f) => tgtAssets[r][f].size = ArchiveSize

\* the target held the asset's name when the sync function listed it, which is
\* also when retry_upload was called: nothing else writes the target between
ExistedAtCall == phase = "asset" /\ HasKey(existing, ItemName)

\* C20: if the target release holds an asset of the name when retry_upload is
\* called, it holds an asset of that name, the old copy or the new one, when
\* retry_upload returns, with the uploaded asset or with None after
\* RETRY_COUNT failed attempts.
C20_ResyncKeepsTheName ==
    (pc \in {"rec", "sync_failed"} /\ ExistedAtCall)
        => HasKey(tgtAssets[target_release], ItemName)

====
